---- MODULE Spec2Model ----
(***************************************************************************)
(* A model of the wxdragon-sys C-ABI wrapper layer over wxWidgets.         *)
(*                                                                         *)
(* Four state machines share the module:                                   *)
(*   SpecStr   - the text getters and their buffer-copy convention;        *)
(*   SpecIPC   - the registries of IPC servers and clients;                *)
(*   SpecConn  - the IPC connections of clients and servers;               *)
(*   SpecTramp - the callback trampoline classes.                          *)
(***************************************************************************)
EXTENDS Integers, Sequences, FiniteSets, TLC

VARIABLES
    call,          \* the inputs of the last text-getter call
    mem,           \* the caller's memory, starting at the buffer pointer
    ret,           \* the value the last text-getter call returned
    heap,          \* address -> the live IPC object at that address
    lastAt,        \* address -> id of the last object allocated there
    g_liveServers, \* ipc.cpp: registry of live servers (addresses)
    g_liveClients, \* ipc.cpp: registry of live clients (addresses)
    issued,        \* the handles the caller was given, by kind
    deletes,       \* object id -> number of times `delete` ran on it
    freed,         \* user-data token -> number of free_user_data calls
    nextId,        \* next object id
    conns,         \* connection id -> the WxdConnection object
    pending,       \* client address -> the client's pending callbacks
    lastOp,        \* the last IPC operation, its inputs and its outcome
    tramp,         \* the trampoline object under observation
    vcall,         \* the last virtual call made on it by wxWidgets
    bmps,          \* address -> the wxBitmap object at that address
    btn,           \* the bitmap toggle button: "none" or "live"
    owned,         \* the bitmap handles the caller owns
    lastBmp,       \* the last bitmap operation and its outcome
    menus,         \* menu id -> the wxMenu: its state, the deletes it saw
    menubar,       \* the wxMenuBar: its state and the menus it holds
    lastMenu,      \* the last menu operation and its outcome
    itemImages,    \* the tree item's image index for each wxTreeItemIcon
    lastEnum,      \* the last enum translation and its outcome
    selOut,        \* the caller's output array of a selection getter
    lastSel,       \* the last selection getter call and its outcome
    cfgLive,       \* the addresses of the live wxConfigBase objects
    cfgCurrent,    \* wxWidgets' process-wide current config
    lastCfg        \* the last config operation and its outcome

strVars   == <<call, mem, ret>>
ipcVars   == <<heap, lastAt, g_liveServers, g_liveClients, issued, deletes,
               freed, nextId, conns, pending, lastOp>>
trampVars == <<tramp, vcall>>
bmpVars   == <<bmps, btn, owned, lastBmp>>
menuVars  == <<menus, menubar, lastMenu>>
enumVars  == <<itemImages, lastEnum>>
selVars   == <<selOut, lastSel>>
cfgVars   == <<cfgLive, cfgCurrent, lastCfg>>
guiVars   == <<bmpVars, menuVars, enumVars, selVars, cfgVars>>
vars      == <<call, mem, ret, heap, lastAt, g_liveServers, g_liveClients,
               issued, deletes, freed, nextId, conns, pending, lastOp,
               tramp, vcall, bmps, btn, owned, lastBmp, menus, menubar,
               lastMenu, itemImages, lastEnum, selOut, lastSel, cfgLive,
               cfgCurrent, lastCfg>>

Min(a, b) == IF a < b THEN a ELSE b

(***************************************************************************)
(* Part 1: text getters.                                                   *)
(***************************************************************************)

\* Longest text, in characters, that an object holds.
MaxChars == 2
\* Largest buffer length a caller passes.
MaxBufLen == 7
\* Largest item count of an indexed container.
MaxCount == 2

\* Code points of the texts: 'a' (1 UTF-8 byte), e-acute (2), euro sign (3).
CodePoints == {97, 233, 8364}

\* The bytes of one code point, as wxString::utf8_str() / ToUTF8() emit them.
Utf8Encode(cp) ==
    IF cp < 128 THEN <<cp>>
    ELSE IF cp < 2048 THEN <<192 + (cp \div 64), 128 + (cp % 64)>>
    ELSE <<224 + (cp \div 4096), 128 + ((cp \div 64) % 64), 128 + (cp % 64)>>

RECURSIVE ToUTF8(_)
ToUTF8(s) == IF s = <<>> THEN <<>> ELSE Utf8Encode(Head(s)) \o ToUTF8(Tail(s))

Texts == UNION {[1..n -> CodePoints] : n \in 0..MaxChars}

\* The caller's memory: offsets 0..MemSize-1 from the buffer pointer.  It is
\* larger than any buffer length passed, so a write past the buffer shows.
MemSize == 3 * MaxChars + MaxBufLen + 2
Untouched == 0 - 1
FreshMem == [i \in 0..(MemSize - 1) |-> Untouched]
\* The value of ret while the call has not returned.
NotReturned == 0 - 2
Written(m) == {i \in DOMAIN m : m[i] # Untouched}

\* memcpy(buffer, data, n); buffer[n] = '\0';
CopyAndTerminate(m, bytes, n) ==
    [i \in DOMAIN m |-> IF i < n THEN bytes[i + 1] ELSE IF i = n THEN 0 ELSE m[i]]

\* wxd_cpp_utils::copy_wxstring_to_buffer (wxd_utils.h), the shared helper.
copy_wxstring_to_buffer(str, bufNull, buffer_len, m) ==
    LET utf8 == ToUTF8(str)
    IN  IF ~bufNull /\ buffer_len > 0
        THEN [ret |-> Len(utf8),
              mem |-> CopyAndTerminate(m, utf8, Min(Len(utf8), buffer_len - 1))]
        ELSE [ret |-> Len(utf8), mem |-> m]

\* The open-coded copy of checklistbox.cpp, static_text.cpp, dirpickerctrl.cpp.
InlineCopy(str, bufNull, buffer_len, m) ==
    LET strBuf == ToUTF8(str)
        copyLen == Min(Len(strBuf), buffer_len - 1)
    IN  IF ~bufNull /\ buffer_len > 0
        THEN [ret |-> Len(strBuf), mem |-> CopyAndTerminate(m, strBuf, copyLen)]
        ELSE [ret |-> Len(strBuf), mem |-> m]

Failure(code, m) == [ret |-> code, mem |-> m]

\* A call record c: fn, handleOk (object handle non-null), argOk (the other
\* arguments let the value be obtained: key / item id / script), index and
\* count (indexed getters), text (the text the object holds for this query),
\* bufNull, bufLen.

\* wxd_Menu_GetTitle answering a null menu with 0 instead of -1.
wxd_Menu_GetTitleMut(c, m) ==
    IF ~c.handleOk THEN Failure(0, m)
    ELSE copy_wxstring_to_buffer(c.text, c.bufNull, c.bufLen, m)

wxd_Menu_GetTitle(c, m) ==
    IF ~c.handleOk THEN Failure(0 - 1, m)
    ELSE copy_wxstring_to_buffer(c.text, c.bufNull, c.bufLen, m)

wxd_MenuItem_GetLabel(c, m) ==
    IF ~c.handleOk THEN Failure(0 - 1, m)
    ELSE copy_wxstring_to_buffer(c.text, c.bufNull, c.bufLen, m)

wxd_Config_GetPath(c, m) ==
    IF ~c.handleOk THEN Failure(0 - 1, m)
    ELSE copy_wxstring_to_buffer(c.text, c.bufNull, c.bufLen, m)

\* argOk: key is non-null; text: the stored value, or default_val.
wxd_Config_ReadString(c, m) ==
    IF ~c.handleOk \/ ~c.argOk THEN Failure(0 - 1, m)
    ELSE copy_wxstring_to_buffer(c.text, c.bufNull, c.bufLen, m)

\* argOk: itemId is non-null and IsOk().
wxd_TreeCtrl_GetItemText(c, m) ==
    IF ~c.handleOk \/ ~c.argOk THEN Failure(0 - 1, m)
    ELSE copy_wxstring_to_buffer(c.text, c.bufNull, c.bufLen, m)

\* wxd_ArrayString_GetString without the check for a negative index.
wxd_ArrayString_GetStringMut(c, m) ==
    IF ~c.handleOk THEN Failure(0 - 1, m)
    ELSE IF c.index >= c.count THEN Failure(0 - 1, m)
    ELSE copy_wxstring_to_buffer(c.text, c.bufNull, c.bufLen, m)

wxd_ArrayString_GetString(c, m) ==
    IF ~c.handleOk THEN Failure(0 - 1, m)
    ELSE IF c.index < 0 \/ c.index >= c.count THEN Failure(0 - 1, m)
    ELSE copy_wxstring_to_buffer(c.text, c.bufNull, c.bufLen, m)

wxd_CheckListBox_GetStringSelection(c, m) ==
    IF ~c.handleOk THEN Failure(0, m)
    ELSE InlineCopy(c.text, c.bufNull, c.bufLen, m)

\* index is a size_t: never negative.
wxd_CheckListBox_GetString(c, m) ==
    IF ~c.handleOk THEN Failure(0, m)
    ELSE IF c.index >= c.count THEN Failure(0, m)
    ELSE InlineCopy(c.text, c.bufNull, c.bufLen, m)

wxd_StaticText_GetLabel(c, m) ==
    IF ~c.handleOk THEN Failure(0, m)
    ELSE InlineCopy(c.text, c.bufNull, c.bufLen, m)

wxd_WebView_GetCurrentURL(c, m) ==
    IF ~c.handleOk THEN Failure(0, m)
    ELSE copy_wxstring_to_buffer(c.text, c.bufNull, c.bufLen, m)

wxd_Grid_GetCellValue(c, m) ==
    IF ~c.handleOk THEN Failure(0, m)
    ELSE copy_wxstring_to_buffer(c.text, c.bufNull, c.bufLen, m)

\* argOk: javascript is non-null and wxWebView::RunScript succeeded.
wxd_WebView_RunScript(c, m) ==
    IF ~c.handleOk \/ ~c.argOk THEN Failure(0 - 1, m)
    ELSE IF ~c.bufNull /\ c.bufLen > 0
         THEN copy_wxstring_to_buffer(c.text, c.bufNull, c.bufLen, m)
         ELSE [ret |-> 0, mem |-> m]

\* The variant is a valid handle; the header fixes the rest of the contract.
wxd_Variant_GetString_Utf8(c, m) ==
    copy_wxstring_to_buffer(c.text, c.bufNull, c.bufLen, m)

\* text: the topic the connection was established on.
wxd_IPCConnection_GetTopic(c, m) ==
    IF ~c.handleOk THEN Failure(0, m)
    ELSE [ret |-> 0, mem |-> m]

NoCall == [fn |-> "none", handleOk |-> FALSE, argOk |-> FALSE, index |-> 0,
           count |-> 0, text |-> <<>>, bufNull |-> TRUE, bufLen |-> 0]

\* The inputs of a call: plain getters take the handle and the buffer only,
\* keyed getters one more argument, indexed getters an index into a container.
PlainInputs(name) ==
    [fn : {name}, handleOk : BOOLEAN, argOk : {TRUE}, index : {0}, count : {1},
     text : Texts, bufNull : BOOLEAN, bufLen : 0..MaxBufLen]

KeyedInputs(name) ==
    [fn : {name}, handleOk : BOOLEAN, argOk : BOOLEAN, index : {0}, count : {1},
     text : Texts, bufNull : BOOLEAN, bufLen : 0..MaxBufLen]

IndexedInputs(name, lowest) ==
    [fn : {name}, handleOk : BOOLEAN, argOk : {TRUE}, index : lowest..MaxCount,
     count : 0..MaxCount, text : Texts, bufNull : BOOLEAN, bufLen : 0..MaxBufLen]

VariantInputs(name) == {c \in PlainInputs(name) : c.handleOk}

\* The caller has set up the call `call` with a fresh buffer; the getter
\* named fills the buffer and returns.
Awaits(name) == call.fn = name /\ ret = NotReturned
Returns(r) ==
    /\ mem' = r.mem
    /\ ret' = r.ret
    /\ UNCHANGED <<call, ipcVars, trampVars, guiVars>>

Menu_GetTitle ==
    /\ Awaits("wxd_Menu_GetTitle")
    /\ Returns(wxd_Menu_GetTitle(call, mem))

MenuItem_GetLabel ==
    /\ Awaits("wxd_MenuItem_GetLabel")
    /\ Returns(wxd_MenuItem_GetLabel(call, mem))

Config_GetPath ==
    /\ Awaits("wxd_Config_GetPath")
    /\ Returns(wxd_Config_GetPath(call, mem))

Config_ReadString ==
    /\ Awaits("wxd_Config_ReadString")
    /\ Returns(wxd_Config_ReadString(call, mem))

TreeCtrl_GetItemText ==
    /\ Awaits("wxd_TreeCtrl_GetItemText")
    /\ Returns(wxd_TreeCtrl_GetItemText(call, mem))

ArrayString_GetString ==
    /\ Awaits("wxd_ArrayString_GetString")
    /\ Returns(wxd_ArrayString_GetString(call, mem))

CheckListBox_GetStringSelection ==
    /\ Awaits("wxd_CheckListBox_GetStringSelection")
    /\ Returns(wxd_CheckListBox_GetStringSelection(call, mem))

CheckListBox_GetString ==
    /\ Awaits("wxd_CheckListBox_GetString")
    /\ Returns(wxd_CheckListBox_GetString(call, mem))

StaticText_GetLabel ==
    /\ Awaits("wxd_StaticText_GetLabel")
    /\ Returns(wxd_StaticText_GetLabel(call, mem))

WebView_GetCurrentURL ==
    /\ Awaits("wxd_WebView_GetCurrentURL")
    /\ Returns(wxd_WebView_GetCurrentURL(call, mem))

Grid_GetCellValue ==
    /\ Awaits("wxd_Grid_GetCellValue")
    /\ Returns(wxd_Grid_GetCellValue(call, mem))

WebView_RunScript ==
    /\ Awaits("wxd_WebView_RunScript")
    /\ Returns(wxd_WebView_RunScript(call, mem))

Variant_GetString_Utf8 ==
    /\ Awaits("wxd_Variant_GetString_Utf8")
    /\ Returns(wxd_Variant_GetString_Utf8(call, mem))

IPCConnection_GetTopic ==
    /\ Awaits("wxd_IPCConnection_GetTopic")
    /\ Returns(wxd_IPCConnection_GetTopic(call, mem))

NextStr ==
    \/ Menu_GetTitle
    \/ MenuItem_GetLabel
    \/ Config_GetPath
    \/ Config_ReadString
    \/ TreeCtrl_GetItemText
    \/ ArrayString_GetString
    \/ CheckListBox_GetStringSelection
    \/ CheckListBox_GetString
    \/ StaticText_GetLabel
    \/ WebView_GetCurrentURL
    \/ Grid_GetCellValue
    \/ WebView_RunScript
    \/ Variant_GetString_Utf8
    \/ IPCConnection_GetTopic

AllInputs ==
    PlainInputs("wxd_Menu_GetTitle") \cup PlainInputs("wxd_MenuItem_GetLabel")
    \cup PlainInputs("wxd_Config_GetPath") \cup KeyedInputs("wxd_Config_ReadString")
    \cup KeyedInputs("wxd_TreeCtrl_GetItemText")
    \cup IndexedInputs("wxd_ArrayString_GetString", 0 - 1)
    \cup PlainInputs("wxd_CheckListBox_GetStringSelection")
    \cup IndexedInputs("wxd_CheckListBox_GetString", 0)
    \cup PlainInputs("wxd_StaticText_GetLabel")
    \cup PlainInputs("wxd_WebView_GetCurrentURL")
    \cup PlainInputs("wxd_Grid_GetCellValue")
    \cup KeyedInputs("wxd_WebView_RunScript")
    \cup VariantInputs("wxd_Variant_GetString_Utf8")
    \cup PlainInputs("wxd_IPCConnection_GetTopic")

\* What the caller asked for, and whether the value could be obtained.
Called == ret # NotReturned
Succeeded ==
    /\ Called
    /\ call.handleOk
    /\ call.argOk
    /\ 0 <= call.index
    /\ call.index < call.count
Failed == Called /\ ~Succeeded
Required == Len(ToUTF8(call.text))
Copied == Min(Required, call.bufLen - 1)


(***************************************************************************)
(* Part 2: IPC servers, clients and connections (ipc.cpp).                 *)
(***************************************************************************)

\* Heap addresses an IPC server or client can be allocated at.  `new` may
\* hand out again an address that `delete` released.
MaxAddr == 2
\* Objects (servers, clients, connection requests) created in one run.
MaxObjects == 3

\* Connections made or accepted in one run.
MaxConns == 2

Addr == 1..MaxAddr
Ids == 1..MaxObjects
NULL == 0

FreeCell == [kind |-> "free", id |-> 0, userData |-> NULL, freeFn |-> FALSE]
NoConn == [state |-> "unused", userData |-> NULL, freeFn |-> FALSE,
           onDisconnect |-> FALSE, terminated |-> FALSE, discResult |-> FALSE]
NoPending == [userData |-> NULL, freeFn |-> FALSE, onDisconnect |-> FALSE]
NoOp == [op |-> "none", handle |-> NULL, stale |-> FALSE, regChanged |-> FALSE,
         liveIds |-> {}, deletedIds |-> {}, argsOk |-> FALSE, made |-> FALSE,
         result |-> NULL, userData |-> NULL, tracked |-> {}]

LiveAt(kind) == {a \in Addr : heap[a].kind = kind}
LiveIds == {heap[a].id : a \in LiveAt("server") \cup LiveAt("client")}

\* The part of the state that running destructors changes.
Store == [heap |-> heap, deletes |-> deletes, freed |-> freed]

\* m_freeUserData(m_userData) of ~WxdServer and ~WxdConnection.
FreeUserData(fr, userData, freeFn) ==
    IF userData # NULL /\ freeFn THEN [fr EXCEPT ![userData] = @ + 1] ELSE fr

\* `delete` on the server or client at address a.  On an address whose
\* object is gone the delete runs again on the object last allocated there.
DeleteObject(st, a) ==
    LET o == st.heap[a]
    IN  IF o.kind = "free"
        THEN [st EXCEPT !.deletes[lastAt[a]] = @ + 1]
        ELSE [heap    |-> [st.heap EXCEPT ![a] = FreeCell],
              deletes |-> [st.deletes EXCEPT ![o.id] = @ + 1],
              freed   |-> FreeUserData(st.freed, o.userData, o.freeFn)]

\* for (void* ptr : registry) delete ptr;
RECURSIVE DeleteAll(_, _)
DeleteAll(st, S) ==
    IF S = {} THEN st
    ELSE LET a == CHOOSE x \in S : TRUE
         IN  DeleteAll(DeleteObject(st, a), S \ {a})

Deleted(st) == {i \in Ids : st.deletes[i] > deletes[i]}

\* What an operation on a server or client handle h records of itself: was
\* the handle stale (issued, its object deleted, the address not in use by
\* an object of the kind), which objects it deleted, whether it changed a
\* registry (newS, newC: the registries after it).
Op(name, h, kind, st, newS, newC) ==
    [op |-> name, handle |-> h,
     stale |-> h # NULL /\ h \in issued[kind] /\ heap[h].kind # kind,
     regChanged |-> newS # g_liveServers \/ newC # g_liveClients,
     liveIds |-> IF name = "CleanupAll" THEN LiveIds ELSE {},
     deletedIds |-> Deleted(st), argsOk |-> TRUE, made |-> FALSE,
     result |-> NULL, userData |-> NULL, tracked |-> {}]

\* What an operation on connections records of itself.
ConnOp(name, h, argsOk, made, result) ==
    [op |-> name, handle |-> h, stale |-> FALSE, regChanged |-> FALSE,
     liveIds |-> {}, deletedIds |-> {}, argsOk |-> argsOk, made |-> made,
     result |-> result, userData |-> NULL, tracked |-> {}]

Commit(st) ==
    /\ heap' = st.heap
    /\ deletes' = st.deletes
    /\ freed' = st.freed

\* new WxdServer(...) / new WxdClient() at a free address.
Allocate(a, kind, userData, freeFn) ==
    /\ heap[a].kind = "free"
    /\ heap' = [heap EXCEPT ![a] = [kind |-> kind, id |-> nextId,
                                    userData |-> userData, freeFn |-> freeFn]]
    /\ lastAt' = [lastAt EXCEPT ![a] = nextId]
    /\ issued' = [issued EXCEPT ![kind] = @ \cup {a}]
    /\ nextId' = nextId + 1

\* wxd_IPCServer_Create without the insertion into g_liveServers.
wxd_IPCServer_CreateMut(a, userData, freeFn) ==
    /\ Allocate(a, "server", userData, freeFn)
    /\ lastOp' = Op("ServerCreate", a, "server", Store, g_liveServers, g_liveClients)
    /\ UNCHANGED <<g_liveServers, g_liveClients, deletes, freed, conns, pending>>

wxd_IPCServer_Create(a, userData, freeFn) ==
    /\ Allocate(a, "server", userData, freeFn)
    /\ g_liveServers' = g_liveServers \cup {a}
    /\ lastOp' = Op("ServerCreate", a, "server", Store,
                    g_liveServers \cup {a}, g_liveClients)
    /\ UNCHANGED <<g_liveClients, deletes, freed, conns, pending>>

\* wxd_IPCServer_Destroy deleting without asking the registry.
wxd_IPCServer_DestroyMut(server) ==
    LET st == DeleteObject(Store, server)
    IN  /\ server # NULL
        /\ g_liveServers' = g_liveServers \ {server}
        /\ Commit(st)
        /\ lastOp' = Op("ServerDestroy", server, "server", st,
                        g_liveServers \ {server}, g_liveClients)
        /\ UNCHANGED <<lastAt, g_liveClients, issued, nextId, conns, pending>>

wxd_IPCServer_Destroy(server) ==
    IF server = NULL \/ server \notin g_liveServers
    THEN /\ lastOp' = Op("ServerDestroy", server, "server", Store,
                         g_liveServers, g_liveClients)
         /\ UNCHANGED <<heap, lastAt, g_liveServers, g_liveClients, issued,
                        deletes, freed, nextId, conns, pending>>
    ELSE LET st == DeleteObject(Store, server)
         IN  /\ g_liveServers' = g_liveServers \ {server}
             /\ Commit(st)
             /\ lastOp' = Op("ServerDestroy", server, "server", st,
                             g_liveServers \ {server}, g_liveClients)
             /\ UNCHANGED <<lastAt, g_liveClients, issued, nextId, conns, pending>>

wxd_IPCClient_Create(a) ==
    /\ Allocate(a, "client", NULL, FALSE)
    /\ g_liveClients' = g_liveClients \cup {a}
    /\ pending' = [pending EXCEPT ![a] = NoPending]
    /\ lastOp' = Op("ClientCreate", a, "client", Store,
                    g_liveServers, g_liveClients \cup {a})
    /\ UNCHANGED <<g_liveServers, deletes, freed, conns>>

wxd_IPCClient_Destroy(client) ==
    IF client = NULL \/ client \notin g_liveClients
    THEN /\ lastOp' = Op("ClientDestroy", client, "client", Store,
                         g_liveServers, g_liveClients)
         /\ UNCHANGED <<heap, lastAt, g_liveServers, g_liveClients, issued,
                        deletes, freed, nextId, conns, pending>>
    ELSE LET st == DeleteObject(Store, client)
         IN  /\ g_liveClients' = g_liveClients \ {client}
             /\ Commit(st)
             /\ lastOp' = Op("ClientDestroy", client, "client", st,
                             g_liveServers, g_liveClients \ {client})
             /\ UNCHANGED <<lastAt, g_liveServers, issued, nextId, conns, pending>>

\* wxd_IPC_CleanupAll without its second loop, over the clients.
wxd_IPC_CleanupAllMut ==
    LET st == DeleteAll(Store, g_liveServers)
    IN  /\ g_liveServers' = {}
        /\ g_liveClients' = g_liveClients
        /\ Commit(st)
        /\ lastOp' = Op("CleanupAll", NULL, "server", st, {}, g_liveClients)
        /\ UNCHANGED <<lastAt, issued, nextId, conns, pending>>

wxd_IPC_CleanupAll ==
    LET st == DeleteAll(DeleteAll(Store, g_liveServers), g_liveClients)
    IN  /\ g_liveServers' = {}
        /\ g_liveClients' = {}
        /\ Commit(st)
        /\ lastOp' = Op("CleanupAll", NULL, "server", st, {}, {})
        /\ UNCHANGED <<lastAt, issued, nextId, conns, pending>>

LiveConns == {c \in Ids : conns[c].state = "live"}

\* new WxdConnection(user_data, ..., on_disconnect, free_user_data)
NewConnection(userData, onDisconnect, freeFn) ==
    [state |-> "live", userData |-> userData, freeFn |-> freeFn,
     onDisconnect |-> onDisconnect, terminated |-> FALSE, discResult |-> FALSE]

wxd_IPCConnection_Create(userData, onDisconnect, freeFn) ==
    /\ conns' = [conns EXCEPT ![nextId] = NewConnection(userData, onDisconnect, freeFn)]
    /\ nextId' = nextId + 1
    /\ lastOp' = ConnOp("ConnectionCreate", NULL, TRUE, FALSE, NULL)
    /\ UNCHANGED <<heap, lastAt, g_liveServers, g_liveClients, issued, deletes,
                   freed, pending>>

\* delete wx_conn; ~WxdConnection frees the user data.
wxd_IPCConnection_Destroy(conn) ==
    /\ IF conn = NULL
       THEN UNCHANGED <<conns, freed>>
       ELSE /\ conns' = [conns EXCEPT ![conn] = [NoConn EXCEPT !.state = "deleted"]]
            /\ freed' = FreeUserData(freed, conns[conn].userData, conns[conn].freeFn)
    /\ lastOp' = ConnOp("ConnectionDestroy", NULL, TRUE, FALSE, NULL)
    /\ UNCHANGED <<heap, lastAt, g_liveServers, g_liveClients, issued, deletes,
                   nextId, pending>>

\* WxdConnection::OnDisconnect, called by wxWidgets when the peer ends the
\* connection; cbResult is what the on_disconnect callback answers.  The
\* override neither deletes the connection nor calls the base class, whose
\* OnDisconnect is the one place where wxWidgets deletes it.
WxdConnection_OnDisconnect(conn, cbResult) ==
    LET result == IF conns[conn].onDisconnect THEN cbResult ELSE TRUE
    IN  /\ conns' = [conns EXCEPT ![conn].terminated = TRUE,
                                  ![conn].discResult = result]
        /\ lastOp' = ConnOp("OnDisconnect", NULL, TRUE, FALSE, NULL)
        /\ UNCHANGED <<heap, lastAt, g_liveServers, g_liveClients, issued,
                       deletes, freed, nextId, pending>>

\* The user data a call hands over together with the function that frees
\* it: what `if (user_data && free_user_data)` lets through.
Handed(a) == IF a.userData # NULL /\ a.freeFn THEN a.userData ELSE NULL

\* SetPendingCallbacks, then wxClient::MakeConnection.  made: it reached the
\* server, called OnMakeConnection() - which builds the connection from the
\* pending callbacks and clears them - and returned that connection.
\* Otherwise it returned NULL: the user data is freed, the pending
\* callbacks are cleared.
Connect(a, made) ==
    LET set == [userData |-> a.userData, freeFn |-> a.freeFn,
                onDisconnect |-> a.onDisconnect]
    IN  /\ IF made
           THEN /\ conns' = [conns EXCEPT ![nextId] =
                      NewConnection(set.userData, set.onDisconnect, set.freeFn)]
                /\ UNCHANGED freed
           ELSE /\ freed' = FreeUserData(freed, a.userData, a.freeFn)
                /\ UNCHANGED conns
        /\ pending' = [pending EXCEPT ![a.client] = NoPending]
        /\ nextId' = nextId + 1
        /\ lastOp' = [ConnOp("MakeConnection", a.client,
                             a.host /\ a.service /\ a.topic, made,
                             IF made THEN nextId ELSE NULL)
                          EXCEPT !.userData = Handed(a)]
        /\ UNCHANGED <<heap, lastAt, g_liveServers, g_liveClients, issued, deletes>>

Refuse(a, made) ==
    /\ lastOp' = [ConnOp("MakeConnection", a.client, FALSE, FALSE, NULL)
                      EXCEPT !.userData = Handed(a)]
    /\ nextId' = nextId + 1
    /\ UNCHANGED <<heap, lastAt, g_liveServers, g_liveClients, issued,
                   deletes, freed, conns, pending>>

\* wxd_IPCClient_MakeConnection without the null checks of host, service
\* and topic.
wxd_IPCClient_MakeConnectionMut(a, made) ==
    IF a.client = NULL THEN Refuse(a, made) ELSE Connect(a, made)

wxd_IPCClient_MakeConnection(a, made) ==
    IF a.client = NULL \/ ~a.host \/ ~a.service \/ ~a.topic
    THEN Refuse(a, made)
    ELSE Connect(a, made)

\* --- free_user_data calling back into the library ---

\* What the host's free_user_data does when ~WxdServer invokes it: it
\* returns, or it first calls wxd_IPCServer_Destroy on the handle of the
\* server that is being destroyed.
Callbacks == {"return", "destroy"}

\* The state a destructor and its callback work on: the store, the registry
\* of servers, and the servers whose destructor invoked free_user_data
\* while g_liveServers still held them.
Running == [heap |-> heap, deletes |-> deletes, freed |-> freed,
            servers |-> g_liveServers, tracked |-> {}]

RECURSIVE DeleteServer(_, _, _)
RECURSIVE DestroyServer(_, _, _)

\* delete wx_server: ~WxdServer invokes free_user_data, which may re-enter,
\* and clears m_userData only after it returned; then the memory is released.
DeleteServer(st, a, cb) ==
    LET o == st.heap[a]
        calls == o.userData # NULL /\ o.freeFn
        counted == [st EXCEPT !.deletes[o.id] = @ + 1]
        called == IF calls
                  THEN [counted EXCEPT
                           !.freed[o.userData] = @ + 1,
                           !.tracked = IF a \in st.servers THEN @ \cup {o.id} ELSE @]
                  ELSE counted
        back == IF calls /\ cb = "destroy" THEN DestroyServer(called, a, cb)
                ELSE called
    IN  [back EXCEPT !.heap[a] = FreeCell]

\* The body of wxd_IPCServer_Destroy: erase from the registry, then delete.
DestroyServer(st, server, cb) ==
    IF server = NULL \/ server \notin st.servers THEN st
    ELSE DeleteServer([st EXCEPT !.servers = @ \ {server}], server, cb)

\* for (void* ptr : g_liveServers) delete server;  over the servers S the
\* loop reaches.
RECURSIVE CleanupServers(_, _, _)
CleanupServers(st, S, cb) ==
    IF S = {} THEN st
    ELSE LET a == CHOOSE x \in S : TRUE
         IN  CleanupServers(DeleteServer(st, a, cb), S \ {a}, cb)

\* wxd_IPCServer_Destroy with a free_user_data that behaves as cb.
wxd_IPCServer_Destroy_cb(server, cb) ==
    LET st == DestroyServer(Running, server, cb)
    IN  /\ g_liveServers' = st.servers
        /\ Commit(st)
        /\ lastOp' = [Op("ServerDestroy", server, "server", st, st.servers,
                         g_liveClients) EXCEPT !.tracked = st.tracked]
        /\ UNCHANGED <<lastAt, g_liveClients, issued, nextId, conns, pending>>

\* wxd_IPC_CleanupAll with a free_user_data that behaves as cb.  An erase
\* made by a re-entrant wxd_IPCServer_Destroy invalidates the iterator of
\* the loop, which from then on is undefined: missed are the servers the
\* loop does not reach after it.
wxd_IPC_CleanupAll_cb(cb, missed) ==
    LET st == CleanupServers(Running, g_liveServers \ missed, cb)
        cl == DeleteAll([heap |-> st.heap, deletes |-> st.deletes,
                         freed |-> st.freed], g_liveClients)
    IN  /\ missed # {} =>
               /\ cb = "destroy"
               /\ \E a \in g_liveServers \ missed :
                      heap[a].userData # NULL /\ heap[a].freeFn
        /\ g_liveServers' = {}
        /\ g_liveClients' = {}
        /\ Commit(cl)
        /\ lastOp' = [Op("CleanupAll", NULL, "server", cl, {}, {})
                          EXCEPT !.tracked = st.tracked]
        /\ UNCHANGED <<lastAt, issued, nextId, conns, pending>>

\* --- the operations as the host language calls them ---

CanCreate == nextId <= MaxObjects
CanConnect == CanCreate /\ Cardinality({c \in Ids : conns[c].state # "unused"}) < MaxConns
UserDataChoices == {NULL, nextId}

IPCServer_Create ==
    /\ CanCreate
    /\ \E a \in Addr, ud \in UserDataChoices, f \in BOOLEAN :
           wxd_IPCServer_Create(a, ud, f)
    /\ UNCHANGED <<strVars, trampVars, guiVars>>

IPCServer_Destroy ==
    /\ \E h \in issued["server"] \cup {NULL} : wxd_IPCServer_Destroy(h)
    /\ UNCHANGED <<strVars, trampVars, guiVars>>

IPCClient_Create ==
    /\ CanCreate
    /\ \E a \in Addr : wxd_IPCClient_Create(a)
    /\ UNCHANGED <<strVars, trampVars, guiVars>>

IPCClient_Destroy ==
    /\ \E h \in issued["client"] \cup {NULL} : wxd_IPCClient_Destroy(h)
    /\ UNCHANGED <<strVars, trampVars, guiVars>>

IPC_CleanupAll ==
    /\ wxd_IPC_CleanupAll
    /\ UNCHANGED <<strVars, trampVars, guiVars>>

IPCClient_MakeConnection ==
    /\ CanConnect
    /\ \E a \in [client : LiveAt("client") \cup {NULL}, host : BOOLEAN,
                 service : BOOLEAN, topic : BOOLEAN, userData : UserDataChoices,
                 freeFn : BOOLEAN, onDisconnect : BOOLEAN],
          made \in BOOLEAN :
           wxd_IPCClient_MakeConnection(a, made)
    /\ UNCHANGED <<strVars, trampVars, guiVars>>

IPCConnection_Create ==
    /\ CanConnect
    /\ \E ud \in UserDataChoices, d \in BOOLEAN, f \in BOOLEAN :
           wxd_IPCConnection_Create(ud, d, f)
    /\ UNCHANGED <<strVars, trampVars, guiVars>>

IPCConnection_Destroy ==
    /\ \E c \in LiveConns \cup {NULL} : wxd_IPCConnection_Destroy(c)
    /\ UNCHANGED <<strVars, trampVars, guiVars>>

PeerDisconnects ==
    /\ \E c \in LiveConns, r \in BOOLEAN :
           /\ ~conns[c].terminated
           /\ WxdConnection_OnDisconnect(c, r)
    /\ UNCHANGED <<strVars, trampVars, guiVars>>

\* The registries: servers and clients come and go, the application exits.
NextIPC ==
    \/ IPCServer_Create
    \/ IPCServer_Destroy
    \/ IPCClient_Create
    \/ IPCClient_Destroy
    \/ IPC_CleanupAll

IPCServer_Destroy_cb ==
    /\ \E h \in issued["server"] \cup {NULL}, cb \in Callbacks :
           wxd_IPCServer_Destroy_cb(h, cb)
    /\ UNCHANGED <<strVars, trampVars, guiVars>>

IPC_CleanupAll_cb ==
    /\ \E cb \in Callbacks, missed \in SUBSET g_liveServers :
           wxd_IPC_CleanupAll_cb(cb, missed)
    /\ UNCHANGED <<strVars, trampVars, guiVars>>

\* The registries, with callbacks that call back into the library.
NextCallback ==
    \/ IPCServer_Create
    \/ IPCClient_Create
    \/ IPCServer_Destroy_cb
    \/ IPC_CleanupAll_cb

\* The connections of the clients and of the servers' accept callbacks.
NextConn ==
    \/ IPCClient_Create
    \/ IPCClient_MakeConnection
    \/ IPCConnection_Create
    \/ IPCConnection_Destroy
    \/ PeerDisconnects

(***************************************************************************)
(* Part 3: callback trampolines.  wxWidgets calls a virtual method of the  *)
(* object; the override forwards to the foreign callback, when one is set. *)
(***************************************************************************)

\* Distinct non-null user-data pointers a trampoline is constructed with.
MaxUserData == 2

WXD_ACC_OK == 2
WXD_ACC_NOT_IMPLEMENTED == 3
AccStatuses == 0..5
Bools == {0, 1}
Pointers == 0..2
Void == {0}

ConnMethods == {"OnExecute", "OnRequest", "OnPoke", "OnStartAdvise",
                "OnStopAdvise", "OnAdvise", "OnDisconnect"}
ServerMethods == {"OnAcceptConnection"}
AccMethods == {"GetChildCount", "GetChild", "GetParent", "GetRole", "GetState",
               "GetName", "GetDescription", "GetHelpText",
               "GetKeyboardShortcut", "GetDefaultAction", "GetValue", "Select",
               "GetSelections", "GetFocus", "DoDefaultAction", "GetLocation",
               "HitTest", "Navigate"}
AccOutMethods == {"GetName", "GetDescription", "GetHelpText",
                  "GetKeyboardShortcut", "GetDefaultAction", "GetValue",
                  "GetLocation"}
PrintMethods == {"OnPreparePrinting", "OnBeginPrinting", "OnEndPrinting",
                 "OnBeginDocument", "OnEndDocument", "OnPrintPage", "HasPage",
                 "GetPageInfo"}
PrintVoidMethods == {"OnPreparePrinting", "OnBeginPrinting", "OnEndPrinting",
                     "OnEndDocument", "GetPageInfo"}
ModelMethods == {"get_parent", "is_container", "is_enabled", "compare",
                 "get_children", "get_value", "set_value"}

Methods(class) ==
    CASE class = "WxdConnection" -> ConnMethods
      [] class = "WxdServer" -> ServerMethods
      [] class = "WxdCustomAccessible" -> AccMethods
      [] class = "WxdPrintout" -> PrintMethods
      [] class = "Wxd_Callbacks_DataViewTreeModel" -> ModelMethods

Classes == {"WxdConnection", "WxdServer", "WxdCustomAccessible", "WxdPrintout",
            "Wxd_Callbacks_DataViewTreeModel"}

\* What the foreign callback of a method can answer.
CallbackResults(class, m) ==
    CASE class = "WxdConnection" -> IF m = "OnRequest" THEN Pointers ELSE Bools
      [] class = "WxdServer" -> Pointers
      [] class = "WxdCustomAccessible" -> AccStatuses
      [] class = "WxdPrintout" -> IF m \in PrintVoidMethods THEN Void ELSE Bools
      [] class = "Wxd_Callbacks_DataViewTreeModel" ->
            IF m \in {"get_parent", "get_children", "get_value", "compare"}
            THEN Pointers ELSE Bools

\* The outcome of one virtual call: the callbacks invoked, in order, each
\* with the user data it was passed; the value handed to wxWidgets; whether
\* an out-parameter of wxWidgets was assigned from the callback's output;
\* whether the base-class implementation ran instead.
Invoke(obj, m) == <<[cb |-> m, userData |-> obj.userData]>>
Forward(obj, m, r) ==
    [invoked |-> Invoke(obj, m), returned |-> r, out |-> FALSE, base |-> FALSE]
Default(v) == [invoked |-> <<>>, returned |-> v, out |-> FALSE, base |-> FALSE]
Base == [invoked |-> <<>>, returned |-> 0, out |-> FALSE, base |-> TRUE]

WxdConnection(obj, m, r) ==
    IF m \in obj.callbacks THEN Forward(obj, m, r)
    ELSE IF m = "OnDisconnect" THEN Default(1)
    ELSE Default(0)

WxdServer(obj, m, r) ==
    IF m \in obj.callbacks THEN Forward(obj, m, r) ELSE Default(0)

WxdCustomAccessible(obj, m, r) ==
    IF m \in obj.callbacks
    THEN IF m \in AccOutMethods
         THEN [Forward(obj, m, r) EXCEPT !.out = (r = WXD_ACC_OK)]
         ELSE Forward(obj, m, r)
    ELSE Default(WXD_ACC_NOT_IMPLEMENTED)

WxdPrintout(obj, m, r) ==
    IF m \in obj.callbacks
    THEN IF m = "OnBeginDocument"
         THEN [Forward(obj, m, r) EXCEPT !.returned = 1]
         ELSE Forward(obj, m, r)
    ELSE IF m = "OnPrintPage" THEN Default(0)
    ELSE Base

\* get_children: r items are appended to the (empty) array and released
\* through free_children.  get_value: r = 0 is a variant of no known type,
\* which leaves wxWidgets' variant as it was.
Wxd_Callbacks_DataViewTreeModel(obj, m, r) ==
    IF m \notin obj.callbacks
    THEN IF m = "compare" THEN Base
         ELSE IF m = "is_enabled" THEN Default(1)
         ELSE Default(0)
    ELSE IF m = "get_children"
    THEN [Forward(obj, m, r) EXCEPT
            !.invoked = IF r > 0 /\ "free_children" \in obj.callbacks
                        THEN @ \o <<[cb |-> "free_children", userData |-> NULL]>>
                        ELSE @]
    ELSE IF m = "get_value"
    THEN [Forward(obj, m, r) EXCEPT !.out = (r # 0)]
    ELSE Forward(obj, m, r)

VirtualCall(obj, m, r) ==
    CASE obj.class = "WxdConnection" -> WxdConnection(obj, m, r)
      [] obj.class = "WxdServer" -> WxdServer(obj, m, r)
      [] obj.class = "WxdCustomAccessible" -> WxdCustomAccessible(obj, m, r)
      [] obj.class = "WxdPrintout" -> WxdPrintout(obj, m, r)
      [] obj.class = "Wxd_Callbacks_DataViewTreeModel" ->
            Wxd_Callbacks_DataViewTreeModel(obj, m, r)

\* The callback sets an object is built with: none, all, one, all but one.
CallbackSets(M) ==
    {{}, M} \cup {{m} : m \in M} \cup {M \ {m} : m \in M}
Extra(class) ==
    IF class = "Wxd_Callbacks_DataViewTreeModel" THEN {{}, {"free_children"}}
    ELSE {{}}

NoTramp == [class |-> "none", userData |-> NULL, callbacks |-> {}]
NoVCall == [method |-> "none", cbResult |-> 0, invoked |-> <<>>, returned |-> 0,
            out |-> FALSE, base |-> FALSE]

\* The constructor stores the user data and the callbacks.
Construct ==
    /\ tramp.class = "none"
    /\ \E class \in Classes, ud \in 0..MaxUserData :
       \E cbs \in CallbackSets(Methods(class)), x \in Extra(class) :
           tramp' = [class |-> class, userData |-> ud, callbacks |-> cbs \cup x]
    /\ vcall' = NoVCall
    /\ UNCHANGED <<strVars, ipcVars, guiVars>>

\* wxWidgets calls a virtual method of the object.
CallVirtual ==
    /\ tramp.class # "none"
    /\ \E m \in Methods(tramp.class) :
       \E r \in CallbackResults(tramp.class, m) :
           LET o == VirtualCall(tramp, m, r)
           IN  vcall' = [method |-> m, cbResult |-> r, invoked |-> o.invoked,
                         returned |-> o.returned, out |-> o.out, base |-> o.base]
    /\ UNCHANGED <<tramp, strVars, ipcVars, guiVars>>

NextTramp ==
    \/ Construct
    \/ CallVirtual

(***************************************************************************)
(* Part 4: bitmaps of the bitmap toggle button and of a menu item          *)
(* (bitmaptogglebutton.cpp, menu.cpp).                                     *)
(***************************************************************************)

\* Heap addresses at which the caller's wxBitmap objects live.
MaxBitmaps == 2
\* Distinct pixel contents; a bitmap without content is not IsOk().
MaxData == 1

\* The bitmaps a widget holds by value: four of the button, one of the item.
Slots == <<"label", "disabled", "focus", "pressed", "item">>
ButtonSlots == {"label", "disabled", "focus", "pressed"}
BmpHeap == 1..MaxBitmaps
SlotAddr(slot) == MaxBitmaps + (CHOOSE i \in 1..Len(Slots) : Slots[i] = slot)
BmpAddrs == 1..(MaxBitmaps + Len(Slots))

NoBitmap == [state |-> "free", data |-> 0]
wxNullBitmap == [state |-> "live", data |-> 0]
\* wxBitmap::IsOk()
IsOk(b) == b.state = "live" /\ b.data # 0
\* *bmp for a handle of the caller, wxNullBitmap for a null handle.
Deref(h) == IF h = NULL THEN wxNullBitmap ELSE bmps[h]

NoBmpOp == [op |-> "none", slot |-> "none", self |-> FALSE, result |-> NULL,
            fresh |-> FALSE, thrown |-> "nothing", made |-> FALSE,
            logged |-> 0, escaped |-> FALSE]
BmpOp(name, slot, self, result) ==
    [op |-> name, slot |-> slot, self |-> self, result |-> result,
     fresh |-> result # NULL /\ bmps[result].state = "free",
     thrown |-> "nothing", made |-> FALSE, logged |-> 0, escaped |-> FALSE]

\* The caller makes a bitmap of its own, with content d or without any.
wxd_Bitmap_Create(a, d) ==
    /\ bmps[a].state = "free"
    /\ bmps' = [bmps EXCEPT ![a] = [state |-> "live", data |-> d]]
    /\ owned' = owned \cup {a}
    /\ lastBmp' = BmpOp("Bitmap_Create", "none", TRUE, a)
    /\ UNCHANGED btn

\* delete (wxBitmap*)bitmap.  The storage of a heap bitmap is released; a
\* bitmap that is a member of a widget is destroyed in place.
wxd_Bitmap_Destroy(h) ==
    /\ bmps' = [bmps EXCEPT ![h] = IF h \in BmpHeap THEN NoBitmap
                                   ELSE [state |-> "deleted", data |-> 0]]
    /\ owned' = owned \ {h}
    /\ lastBmp' = BmpOp("Bitmap_Destroy", "none", TRUE, NULL)
    /\ UNCHANGED btn

\* The bitmaps of a button built from the arguments a: the constructor
\* takes the main bitmap as it is; the others are set only when IsOk().
Construct_wxBitmapToggleButton(a) ==
    [x \in BmpAddrs |->
        IF x = SlotAddr("label") THEN [state |-> "live", data |-> Deref(a.bitmap).data]
        ELSE IF x = SlotAddr("disabled")
            THEN IF IsOk(Deref(a.disabled)) THEN Deref(a.disabled) ELSE wxNullBitmap
        ELSE IF x = SlotAddr("focus")
            THEN IF IsOk(Deref(a.focus)) THEN Deref(a.focus) ELSE wxNullBitmap
        ELSE IF x = SlotAddr("pressed")
            THEN IF IsOk(Deref(a.pressed)) THEN Deref(a.pressed) ELSE wxNullBitmap
        ELSE bmps[x]]

CreateFailed(thrown, logged, escaped) ==
    /\ lastBmp' = [BmpOp("Button_Create", "none", TRUE, NULL) EXCEPT
                       !.thrown = thrown, !.logged = logged,
                       !.escaped = escaped]
    /\ UNCHANGED <<bmps, btn, owned>>

\* wxd_BitmapToggleButton_Create without the catch (...) clause.
wxd_BitmapToggleButton_CreateMut(a, thrown) ==
    IF ~a.parent THEN CreateFailed("nothing", 0, FALSE)
    ELSE IF thrown = "std::exception" THEN CreateFailed(thrown, 1, FALSE)
    ELSE IF thrown = "other" THEN CreateFailed(thrown, 0, TRUE)
    ELSE /\ bmps' = Construct_wxBitmapToggleButton(a)
         /\ btn' = "live"
         /\ lastBmp' = [BmpOp("Button_Create", "none", TRUE, NULL) EXCEPT
                            !.made = TRUE]
         /\ UNCHANGED owned

\* thrown: what the wxBitmapToggleButton constructor throws - "nothing", a
\* "std::exception", or an exception of any "other" type.
wxd_BitmapToggleButton_Create(a, thrown) ==
    IF ~a.parent THEN CreateFailed("nothing", 0, FALSE)
    ELSE IF thrown = "std::exception" THEN CreateFailed(thrown, 1, FALSE)
    ELSE IF thrown = "other" THEN CreateFailed(thrown, 1, FALSE)
    ELSE /\ bmps' = Construct_wxBitmapToggleButton(a)
         /\ btn' = "live"
         /\ lastBmp' = [BmpOp("Button_Create", "none", TRUE, NULL) EXCEPT
                            !.made = TRUE]
         /\ UNCHANGED owned

\* item->SetBitmap(bitmap ? *bitmap : wxNullBitmap)
wxd_MenuItem_SetBitmap(item, bitmap) ==
    /\ IF item
       THEN bmps' = [bmps EXCEPT ![SlotAddr("item")] =
                         [state |-> "live", data |-> Deref(bitmap).data]]
       ELSE UNCHANGED bmps
    /\ lastBmp' = BmpOp("SetBitmap", "item", item, NULL)
    /\ UNCHANGED <<btn, owned>>

\* The shape shared by the five getters: null for a null handle or a bitmap
\* that is not IsOk(), else new wxBitmap(bmp) at the free address a.
CloneBitmap(self, slot, a) ==
    IF ~self \/ ~IsOk(bmps[SlotAddr(slot)])
    THEN /\ lastBmp' = BmpOp("GetBitmap", slot, self, NULL)
         /\ UNCHANGED <<bmps, btn, owned>>
    ELSE /\ bmps[a].state = "free"
         /\ bmps' = [bmps EXCEPT ![a] = bmps[SlotAddr(slot)]]
         /\ owned' = owned \cup {a}
         /\ lastBmp' = BmpOp("GetBitmap", slot, self, a)
         /\ UNCHANGED btn

\* wxd_MenuItem_GetBitmap handing out the address of the item's own bitmap.
wxd_MenuItem_GetBitmapMut(self, a) ==
    IF ~self \/ ~IsOk(bmps[SlotAddr("item")])
    THEN /\ lastBmp' = BmpOp("GetBitmap", "item", self, NULL)
         /\ UNCHANGED <<bmps, btn, owned>>
    ELSE /\ owned' = owned \cup {SlotAddr("item")}
         /\ lastBmp' = BmpOp("GetBitmap", "item", self, SlotAddr("item"))
         /\ UNCHANGED <<bmps, btn>>

wxd_MenuItem_GetBitmap(self, a) == CloneBitmap(self, "item", a)
wxd_BitmapToggleButton_GetBitmapLabel(self, a) == CloneBitmap(self, "label", a)
wxd_BitmapToggleButton_GetBitmapDisabled(self, a) == CloneBitmap(self, "disabled", a)
wxd_BitmapToggleButton_GetBitmapFocus(self, a) == CloneBitmap(self, "focus", a)
wxd_BitmapToggleButton_GetBitmapPressed(self, a) == CloneBitmap(self, "pressed", a)

\* --- the operations as the host language calls them ---

BmpFrame ==
    UNCHANGED <<strVars, ipcVars, trampVars, menuVars, enumVars, selVars, cfgVars>>
BitmapArgs == owned \cup {NULL}
\* A button handle the caller can pass: null, or the button once it exists.
ButtonHandles == IF btn = "live" THEN BOOLEAN ELSE {FALSE}

Bitmap_Create ==
    /\ \E a \in BmpHeap, d \in 0..MaxData : wxd_Bitmap_Create(a, d)
    /\ BmpFrame

Bitmap_Destroy ==
    /\ \E h \in owned : wxd_Bitmap_Destroy(h)
    /\ BmpFrame

BitmapToggleButton_Create ==
    /\ btn = "none"
    /\ \E a \in [parent : BOOLEAN, bitmap : BitmapArgs, disabled : BitmapArgs,
                 focus : BitmapArgs, pressed : BitmapArgs],
          thrown \in {"nothing", "std::exception", "other"} :
           wxd_BitmapToggleButton_Create(a, thrown)
    /\ BmpFrame

MenuItem_SetBitmap ==
    /\ \E item \in BOOLEAN, b \in BitmapArgs : wxd_MenuItem_SetBitmap(item, b)
    /\ BmpFrame

MenuItem_GetBitmap ==
    /\ \E self \in BOOLEAN, a \in BmpHeap : wxd_MenuItem_GetBitmap(self, a)
    /\ BmpFrame

BitmapToggleButton_GetBitmapLabel ==
    /\ \E self \in ButtonHandles, a \in BmpHeap :
           wxd_BitmapToggleButton_GetBitmapLabel(self, a)
    /\ BmpFrame

BitmapToggleButton_GetBitmapDisabled ==
    /\ \E self \in ButtonHandles, a \in BmpHeap :
           wxd_BitmapToggleButton_GetBitmapDisabled(self, a)
    /\ BmpFrame

BitmapToggleButton_GetBitmapFocus ==
    /\ \E self \in ButtonHandles, a \in BmpHeap :
           wxd_BitmapToggleButton_GetBitmapFocus(self, a)
    /\ BmpFrame

BitmapToggleButton_GetBitmapPressed ==
    /\ \E self \in ButtonHandles, a \in BmpHeap :
           wxd_BitmapToggleButton_GetBitmapPressed(self, a)
    /\ BmpFrame

NextBmp ==
    \/ Bitmap_Create
    \/ Bitmap_Destroy
    \/ BitmapToggleButton_Create
    \/ MenuItem_SetBitmap
    \/ MenuItem_GetBitmap
    \/ BitmapToggleButton_GetBitmapLabel
    \/ BitmapToggleButton_GetBitmapDisabled
    \/ BitmapToggleButton_GetBitmapFocus
    \/ BitmapToggleButton_GetBitmapPressed

(***************************************************************************)
(* Part 5: menus and the menubar that owns them (menu.cpp).                *)
(***************************************************************************)

\* Menus created in one run.
MaxMenus == 3
\* Most menus a menubar holds.
MaxBarLen == 3

MenuIds == 1..MaxMenus
NoMenu == [state |-> "none", deletes |-> 0]
NoMenuOp == [op |-> "none", menu |-> NULL, result |-> NULL]
LiveMenus == {m \in MenuIds : menus[m].state = "live"}
\* The menus the menubar holds, and with them owns.
OwnedByBar == {menubar.list[i] : i \in 1..Len(menubar.list)}

\* delete wx_menu
DeleteMenu(ms, m) ==
    [ms EXCEPT ![m] = [state |-> "deleted", deletes |-> @.deletes + 1]]

\* ~wxMenuBar deletes the menus of its list, entry by entry.
RECURSIVE DeleteMenus(_, _)
DeleteMenus(ms, list) ==
    IF list = <<>> THEN ms
    ELSE DeleteMenus(DeleteMenu(ms, Head(list)), Tail(list))

\* new wxMenu(title, style)
wxd_Menu_Create(m) ==
    /\ menus[m].state = "none"
    /\ menus' = [menus EXCEPT ![m] = [state |-> "live", deletes |-> 0]]
    /\ lastMenu' = [op |-> "Menu_Create", menu |-> m, result |-> m]
    /\ UNCHANGED menubar

wxd_Menu_Destroy(menu) ==
    /\ IF menu = NULL THEN UNCHANGED menus
       ELSE menus' = DeleteMenu(menus, menu)
    /\ lastMenu' = [op |-> "Menu_Destroy", menu |-> menu, result |-> NULL]
    /\ UNCHANGED menubar

\* wx_menubar->Append(wx_menu, title): the menubar takes the pointer into
\* its list, whether or not the list holds it already.
wxd_MenuBar_Append(bar, menu) ==
    /\ IF ~bar \/ menu = NULL THEN UNCHANGED menubar
       ELSE menubar' = [menubar EXCEPT !.list = Append(@, menu)]
    /\ lastMenu' = [op |-> "MenuBar_Append", menu |-> menu, result |-> NULL]
    /\ UNCHANGED menus

\* wx_menubar->Replace(pos, wx_menu, title): the menu at pos is handed
\* back and the new one takes its place; a position past the end changes
\* nothing and yields NULL.
wxd_MenuBar_Replace(bar, pos, menu) ==
    IF ~bar \/ menu = NULL \/ pos >= Len(menubar.list)
    THEN /\ lastMenu' = [op |-> "MenuBar_Replace", menu |-> menu, result |-> NULL]
         /\ UNCHANGED <<menus, menubar>>
    ELSE /\ menubar' = [menubar EXCEPT !.list[pos + 1] = menu]
         /\ lastMenu' = [op |-> "MenuBar_Replace", menu |-> menu,
                         result |-> menubar.list[pos + 1]]
         /\ UNCHANGED menus

\* The frame destroys its menubar, and the menubar the menus it owns.
MenuBar_Destroyed ==
    /\ menubar.state = "live"
    /\ menus' = DeleteMenus(menus, menubar.list)
    /\ menubar' = [state |-> "deleted", list |-> <<>>]
    /\ lastMenu' = [op |-> "MenuBar_Destroyed", menu |-> NULL, result |-> NULL]

\* --- the operations as the host language calls them ---

MenuFrame ==
    UNCHANGED <<strVars, ipcVars, trampVars, bmpVars, enumVars, selVars, cfgVars>>
\* A menubar handle the caller can pass: null, or the menubar while it lives.
BarHandles == IF menubar.state = "live" THEN BOOLEAN ELSE {FALSE}

Menu_Create ==
    /\ \E m \in MenuIds : wxd_Menu_Create(m)
    /\ MenuFrame

\* The caller keeps to the warning of wxd_menu.h: only a live menu that no
\* menubar owns is destroyed.
Menu_Destroy ==
    /\ \E m \in (LiveMenus \ OwnedByBar) \cup {NULL} : wxd_Menu_Destroy(m)
    /\ MenuFrame

MenuBar_Append ==
    /\ Len(menubar.list) < MaxBarLen
    /\ \E bar \in BarHandles, m \in LiveMenus \cup {NULL} :
           wxd_MenuBar_Append(bar, m)
    /\ MenuFrame

MenuBar_Replace ==
    /\ \E bar \in BarHandles, pos \in 0..MaxBarLen, m \in LiveMenus \cup {NULL} :
           wxd_MenuBar_Replace(bar, pos, m)
    /\ MenuFrame

MenuBar_Destroy ==
    /\ MenuBar_Destroyed
    /\ MenuFrame

NextMenu ==
    \/ Menu_Create
    \/ Menu_Destroy
    \/ MenuBar_Append
    \/ MenuBar_Replace
    \/ MenuBar_Destroy

(***************************************************************************)
(* Part 6: enum translation (treectrl.cpp, config.cpp).                    *)
(***************************************************************************)

\* Largest value of the int32 icon argument a caller passes.
MaxIcon == 5
\* Largest image index.
MaxImage == 1

\* wxd_TreeItemIconType_t
WXD_TreeItemIcon_Normal == 0
WXD_TreeItemIcon_Selected == 1
WXD_TreeItemIcon_Expanded == 2
WXD_TreeItemIcon_SelectedExpanded == 3
TreeItemIcons == {WXD_TreeItemIcon_Normal, WXD_TreeItemIcon_Selected,
                  WXD_TreeItemIcon_Expanded, WXD_TreeItemIcon_SelectedExpanded}
\* The enum has a fixed underlying type: any int32 is a value of it.
IconValues == -1..MaxIcon
wxTreeItemIcon == {"wxTreeItemIcon_Normal", "wxTreeItemIcon_Selected",
                   "wxTreeItemIcon_Expanded", "wxTreeItemIcon_SelectedExpanded"}
EntryType == {"Type_Unknown", "Type_String", "Type_Boolean", "Type_Integer",
              "Type_Float"}
NoEnumOp == [op |-> "none", arg |-> "none", wx |-> "none", result |-> -1]

map_to_wx_tree_item_iconMut(which_wxd) ==
    CASE which_wxd = WXD_TreeItemIcon_Normal -> "wxTreeItemIcon_Normal"
      [] which_wxd = WXD_TreeItemIcon_Selected -> "wxTreeItemIcon_Expanded"
      [] which_wxd = WXD_TreeItemIcon_Expanded -> "wxTreeItemIcon_Selected"
      [] which_wxd = WXD_TreeItemIcon_SelectedExpanded ->
             "wxTreeItemIcon_SelectedExpanded"
      [] OTHER -> "wxTreeItemIcon_Normal"

map_to_wx_tree_item_icon(which_wxd) ==
    CASE which_wxd = WXD_TreeItemIcon_Normal -> "wxTreeItemIcon_Normal"
      [] which_wxd = WXD_TreeItemIcon_Selected -> "wxTreeItemIcon_Selected"
      [] which_wxd = WXD_TreeItemIcon_Expanded -> "wxTreeItemIcon_Expanded"
      [] which_wxd = WXD_TreeItemIcon_SelectedExpanded ->
             "wxTreeItemIcon_SelectedExpanded"
      [] OTHER -> "wxTreeItemIcon_Normal"

\* ok: the tree and the item are non-null and the item IsOk().
wxd_TreeCtrl_SetItemImage(ok, image, which) ==
    /\ itemImages' = IF ok
                     THEN [itemImages EXCEPT ![map_to_wx_tree_item_icon(which)] = image]
                     ELSE itemImages
    /\ lastEnum' = [op |-> "TreeCtrl_SetItemImage", arg |-> which,
                    wx |-> IF ok THEN map_to_wx_tree_item_icon(which) ELSE "none",
                    result |-> -1]

wxd_TreeCtrl_GetItemImage(ok, which) ==
    /\ lastEnum' = [op |-> "TreeCtrl_GetItemImage", arg |-> which,
                    wx |-> IF ok THEN map_to_wx_tree_item_icon(which) ELSE "none",
                    result |-> IF ok THEN itemImages[map_to_wx_tree_item_icon(which)]
                               ELSE -1]
    /\ UNCHANGED itemImages

\* type: what cfg->GetEntryType(name) answers.
wxd_Config_GetEntryType(config, name, type) ==
    /\ lastEnum' =
           [op |-> "Config_GetEntryType", arg |-> type,
            wx |-> IF config = NULL \/ name = NULL THEN "none" ELSE type,
            result |->
                IF config = NULL \/ name = NULL THEN "WXD_CONFIG_TYPE_UNKNOWN"
                ELSE CASE type = "Type_String" -> "WXD_CONFIG_TYPE_STRING"
                       [] type = "Type_Boolean" -> "WXD_CONFIG_TYPE_BOOLEAN"
                       [] type = "Type_Integer" -> "WXD_CONFIG_TYPE_INTEGER"
                       [] type = "Type_Float" -> "WXD_CONFIG_TYPE_FLOAT"
                       [] OTHER -> "WXD_CONFIG_TYPE_UNKNOWN"]
    /\ UNCHANGED itemImages

EnumFrame ==
    UNCHANGED <<strVars, ipcVars, trampVars, bmpVars, menuVars, selVars, cfgVars>>

TreeCtrl_SetItemImage ==
    /\ \E ok \in BOOLEAN, image \in 0..MaxImage, which \in IconValues :
           wxd_TreeCtrl_SetItemImage(ok, image, which)
    /\ EnumFrame

TreeCtrl_GetItemImage ==
    /\ \E ok \in BOOLEAN, which \in IconValues :
           wxd_TreeCtrl_GetItemImage(ok, which)
    /\ EnumFrame

Config_GetEntryType ==
    /\ \E config \in {NULL, 1}, name \in {NULL, 1}, type \in EntryType :
           wxd_Config_GetEntryType(config, name, type)
    /\ EnumFrame

NextEnum ==
    \/ TreeCtrl_SetItemImage
    \/ TreeCtrl_GetItemImage
    \/ Config_GetEntryType

(***************************************************************************)
(* Part 7: the selection-list getters (treectrl.cpp, grid.cpp).            *)
(***************************************************************************)

\* Most items selected at once.
MaxSel == 3
\* Largest capacity a caller announces.
MaxCap == 3
\* Items a selection is made of (rows, columns, cells, blocks, tree items).
MaxItem == 2

\* The caller's array, and one slot past the largest capacity.
SelMemSize == MaxCap + 1
\* A slot the getter did not write.
NotWritten == 0
FreshSelMem == [i \in 1..SelMemSize |-> NotWritten]
\* What the widget answers: the selected items in selection order.
Selections == UNION {[1..n -> 1..MaxItem] : n \in 0..MaxSel}
NoSelOp == [op |-> "none", self |-> FALSE, selection |-> <<>>,
            buffer |-> FALSE, len |-> 0, result |-> 0, done |-> FALSE]
GridGetters == {"Grid_GetSelectedRows", "Grid_GetSelectedCols",
                "Grid_GetSelectedCells", "Grid_GetSelectedBlocks",
                "Grid_GetSelectedRowBlocks", "Grid_GetSelectedColBlocks"}
\* The calls a caller can make; max_items of the tree getter is a size_t,
\* buffer_len of the grid getters an int.
SelInputs ==
    {c \in [op : GridGetters \cup {"TreeCtrl_GetSelections"}, self : BOOLEAN,
            selection : Selections, buffer : BOOLEAN, len : -1..MaxCap,
            result : {0}, done : {FALSE}] :
        c.op = "TreeCtrl_GetSelections" => c.len >= 0}

CopySelectedMut(selection, buffer, buffer_len) ==
    IF buffer /\ buffer_len > 0
    THEN [i \in 1..SelMemSize |->
             IF i <= Len(selection) THEN selection[i] ELSE NotWritten]
    ELSE FreshSelMem

\* if (buffer && buffer_len > 0) { copy_count = min(count, buffer_len);
\*     for (i < copy_count) buffer[i] = items[i]; }
CopySelected(selection, buffer, buffer_len) ==
    IF buffer /\ buffer_len > 0
    THEN [i \in 1..SelMemSize |->
             IF i <= Min(Len(selection), buffer_len) THEN selection[i]
             ELSE NotWritten]
    ELSE FreshSelMem

\* The body the seven getters share, applied to the call that is waiting:
\* a null self answers 0, else the count.
GetSelected(name) ==
    /\ lastSel.op = name
    /\ ~lastSel.done
    /\ selOut' = IF lastSel.self
                 THEN CopySelected(lastSel.selection, lastSel.buffer, lastSel.len)
                 ELSE FreshSelMem
    /\ lastSel' = [lastSel EXCEPT
                      !.result = IF lastSel.self THEN Len(lastSel.selection) ELSE 0,
                      !.done = TRUE]
    /\ UNCHANGED <<strVars, ipcVars, trampVars, bmpVars, menuVars, enumVars, cfgVars>>

wxd_TreeCtrl_GetSelections == GetSelected("TreeCtrl_GetSelections")
wxd_Grid_GetSelectedRows == GetSelected("Grid_GetSelectedRows")
wxd_Grid_GetSelectedCols == GetSelected("Grid_GetSelectedCols")
wxd_Grid_GetSelectedCells == GetSelected("Grid_GetSelectedCells")
wxd_Grid_GetSelectedBlocks == GetSelected("Grid_GetSelectedBlocks")
wxd_Grid_GetSelectedRowBlocks == GetSelected("Grid_GetSelectedRowBlocks")
wxd_Grid_GetSelectedColBlocks == GetSelected("Grid_GetSelectedColBlocks")

NextSel ==
    \/ wxd_TreeCtrl_GetSelections
    \/ wxd_Grid_GetSelectedRows
    \/ wxd_Grid_GetSelectedCols
    \/ wxd_Grid_GetSelectedCells
    \/ wxd_Grid_GetSelectedBlocks
    \/ wxd_Grid_GetSelectedRowBlocks
    \/ wxd_Grid_GetSelectedColBlocks

(***************************************************************************)
(* Part 8: config objects and the process-wide current config (config.cpp).*)
(***************************************************************************)

\* Addresses a config object can live at.
MaxConfigs == 3

CfgAddr == 1..MaxConfigs
NoCfgOp == [op |-> "none", arg |-> NULL, result |-> NULL]
\* A config handle a caller holds: null, or a live config.
CfgHandles == cfgLive \cup {NULL}

\* new wxFileConfig(...), at any free address
wxd_Config_Create(a) ==
    /\ a \notin cfgLive
    /\ cfgLive' = cfgLive \cup {a}
    /\ lastCfg' = [op |-> "Config_Create", arg |-> NULL, result |-> a]
    /\ UNCHANGED cfgCurrent

wxd_Config_DestroyMut(config) ==
    /\ cfgLive' = cfgLive \ {config}
    /\ lastCfg' = [op |-> "Config_Destroy", arg |-> config, result |-> NULL]
    /\ UNCHANGED cfgCurrent

\* if (config) { if (wxConfigBase::Get(false) == cfg) wxConfigBase::Set(nullptr);
\*               delete cfg; }
wxd_Config_Destroy(config) ==
    /\ cfgLive' = cfgLive \ {config}
    /\ cfgCurrent' = IF config # NULL /\ cfgCurrent = config THEN NULL
                     ELSE cfgCurrent
    /\ lastCfg' = [op |-> "Config_Destroy", arg |-> config, result |-> NULL]

\* wxConfigBase::Get(create_on_demand): the current config; with none set
\* and create_on_demand, wxWidgets creates one at address a and installs it.
wxd_Config_Get(create_on_demand, a) ==
    IF cfgCurrent = NULL /\ create_on_demand /\ a \notin cfgLive
    THEN /\ cfgLive' = cfgLive \cup {a}
         /\ cfgCurrent' = a
         /\ lastCfg' = [op |-> "Config_Get", arg |-> NULL, result |-> a]
    ELSE /\ lastCfg' = [op |-> "Config_Get", arg |-> NULL, result |-> cfgCurrent]
         /\ UNCHANGED <<cfgLive, cfgCurrent>>

\* prev = wxConfigBase::Set(config); return prev;
wxd_Config_Set(config) ==
    /\ cfgCurrent' = config
    /\ lastCfg' = [op |-> "Config_Set", arg |-> config, result |-> cfgCurrent]
    /\ UNCHANGED cfgLive

CfgFrame ==
    UNCHANGED <<strVars, ipcVars, trampVars, bmpVars, menuVars, enumVars, selVars>>

Config_Create ==
    /\ \E a \in CfgAddr : wxd_Config_Create(a)
    /\ CfgFrame

Config_Destroy ==
    /\ \E config \in CfgHandles : wxd_Config_Destroy(config)
    /\ CfgFrame

Config_Get ==
    /\ \E create_on_demand \in BOOLEAN, a \in CfgAddr :
           wxd_Config_Get(create_on_demand, a)
    /\ CfgFrame

Config_Set ==
    /\ \E config \in CfgHandles : wxd_Config_Set(config)
    /\ CfgFrame

NextCfg ==
    \/ Config_Create
    \/ Config_Destroy
    \/ Config_Get
    \/ Config_Set

(***************************************************************************)
(* The specifications.                                                     *)
(***************************************************************************)

StrIdle ==
    /\ call = NoCall
    /\ mem = FreshMem
    /\ ret = NotReturned

IPCIdle ==
    /\ heap = [a \in Addr |-> FreeCell]
    /\ lastAt = [a \in Addr |-> 0]
    /\ g_liveServers = {}
    /\ g_liveClients = {}
    /\ issued = [server |-> {}, client |-> {}, conn |-> {}]
    /\ deletes = [i \in Ids |-> 0]
    /\ freed = [i \in Ids |-> 0]
    /\ nextId = 1
    /\ conns = [i \in Ids |-> NoConn]
    /\ pending = [a \in Addr |-> NoPending]
    /\ lastOp = NoOp

TrampIdle ==
    /\ tramp = NoTramp
    /\ vcall = NoVCall

\* A menu item exists and holds no bitmap; no button, no caller bitmap.
BmpIdle ==
    /\ bmps = [x \in BmpAddrs |-> IF x = SlotAddr("item") THEN wxNullBitmap
                                   ELSE NoBitmap]
    /\ btn = "none"
    /\ owned = {}
    /\ lastBmp = NoBmpOp

\* A menubar exists and holds no menu; no menu exists.
MenuIdle ==
    /\ menus = [m \in MenuIds |-> NoMenu]
    /\ menubar = [state |-> "live", list |-> <<>>]
    /\ lastMenu = NoMenuOp

\* The tree item has no image yet.
EnumIdle ==
    /\ itemImages = [w \in wxTreeItemIcon |-> -1]
    /\ lastEnum = NoEnumOp

\* No selection getter was called yet.
SelIdle ==
    /\ selOut = FreshSelMem
    /\ lastSel = NoSelOp

\* No config exists and none is current.
CfgIdle ==
    /\ cfgLive = {}
    /\ cfgCurrent = NULL
    /\ lastCfg = NoCfgOp

GuiIdle == BmpIdle /\ MenuIdle /\ EnumIdle /\ SelIdle /\ CfgIdle

\* A text getter is about to be called, with any inputs.
InitStr ==
    /\ call \in AllInputs
    /\ mem = FreshMem
    /\ ret = NotReturned
    /\ IPCIdle
    /\ TrampIdle
    /\ GuiIdle

\* No IPC object exists yet.
InitIPC == StrIdle /\ IPCIdle /\ TrampIdle /\ GuiIdle

\* No trampoline object exists yet.
InitTramp == StrIdle /\ IPCIdle /\ TrampIdle /\ GuiIdle

\* No config exists yet.
InitCfg == StrIdle /\ IPCIdle /\ TrampIdle /\ GuiIdle

\* One selection getter call is waiting to be made.
InitSel ==
    /\ StrIdle /\ IPCIdle /\ TrampIdle /\ BmpIdle /\ MenuIdle /\ EnumIdle
    /\ CfgIdle
    /\ selOut = FreshSelMem
    /\ lastSel \in SelInputs

\* No value was translated yet.
InitEnum == StrIdle /\ IPCIdle /\ TrampIdle /\ GuiIdle

\* No menu exists yet.
InitMenu == StrIdle /\ IPCIdle /\ TrampIdle /\ GuiIdle

\* No button exists yet.
InitBmp == StrIdle /\ IPCIdle /\ TrampIdle /\ GuiIdle

SpecStr == InitStr /\ [][NextStr]_vars
SpecIPC == InitIPC /\ [][NextIPC]_vars
SpecConn == InitIPC /\ [][NextConn]_vars
SpecCallback == InitIPC /\ [][NextCallback]_vars
SpecTramp == InitTramp /\ [][NextTramp]_vars
SpecBmp == InitBmp /\ [][NextBmp]_vars
SpecMenu == InitMenu /\ [][NextMenu]_vars
SpecEnum == InitEnum /\ [][NextEnum]_vars
SpecSel == InitSel /\ [][NextSel]_vars
SpecCfg == InitCfg /\ [][NextCfg]_vars


(***************************************************************************)
(* Properties of the text getters (SpecStr).                               *)
(***************************************************************************)

\* The getter named by a call record.
CallGetter(c, m) ==
    CASE c.fn = "wxd_Menu_GetTitle" -> wxd_Menu_GetTitle(c, m)
      [] c.fn = "wxd_MenuItem_GetLabel" -> wxd_MenuItem_GetLabel(c, m)
      [] c.fn = "wxd_Config_GetPath" -> wxd_Config_GetPath(c, m)
      [] c.fn = "wxd_Config_ReadString" -> wxd_Config_ReadString(c, m)
      [] c.fn = "wxd_TreeCtrl_GetItemText" -> wxd_TreeCtrl_GetItemText(c, m)
      [] c.fn = "wxd_ArrayString_GetString" -> wxd_ArrayString_GetString(c, m)
      [] c.fn = "wxd_CheckListBox_GetStringSelection" ->
            wxd_CheckListBox_GetStringSelection(c, m)
      [] c.fn = "wxd_CheckListBox_GetString" -> wxd_CheckListBox_GetString(c, m)
      [] c.fn = "wxd_StaticText_GetLabel" -> wxd_StaticText_GetLabel(c, m)
      [] c.fn = "wxd_WebView_GetCurrentURL" -> wxd_WebView_GetCurrentURL(c, m)
      [] c.fn = "wxd_Grid_GetCellValue" -> wxd_Grid_GetCellValue(c, m)
      [] c.fn = "wxd_WebView_RunScript" -> wxd_WebView_RunScript(c, m)
      [] c.fn = "wxd_Variant_GetString_Utf8" -> wxd_Variant_GetString_Utf8(c, m)
      [] c.fn = "wxd_IPCConnection_GetTopic" -> wxd_IPCConnection_GetTopic(c, m)

\* Memory m holds the whole text of the call, NUL-terminated, from offset 0.
HoldsWholeText(m) ==
    /\ \A i \in 0..(Required - 1) : m[i] = ToUTF8(call.text)[i + 1]
    /\ m[Required] = 0

\* C1: every getter that succeeds returns the full UTF-8 byte length of the
\* text, whatever the buffer pointer and buffer_len, truncated or not, and a
\* second call with a buffer of (returned length + 1) bytes yields the whole
\* text.
C1_ReturnsRequiredLength ==
    Succeeded =>
        /\ ret = Required
        /\ LET again == CallGetter([call EXCEPT !.bufNull = FALSE,
                                                !.bufLen = ret + 1], FreshMem)
           IN  again.ret = Required /\ HoldsWholeText(again.mem)

\* C2: a getter that succeeds on a non-null buffer with buffer_len >= 1
\* writes exactly min(L, buffer_len - 1) bytes of the text and then one NUL,
\* and writes nothing at or beyond offset buffer_len.
C2_WritesWithinBuffer ==
    (Succeeded /\ ~call.bufNull /\ call.bufLen >= 1) =>
        /\ Written(mem) = 0..Copied
        /\ \A i \in 0..(Copied - 1) : mem[i] = ToUTF8(call.text)[i + 1]
        /\ mem[Copied] = 0
        /\ \A i \in Written(mem) : i < call.bufLen

\* C3: a getter that succeeds on a NULL buffer or with buffer_len = 0 writes
\* no byte of the caller's memory and still returns the required length.
C3_NullBufferMeasures ==
    (Succeeded /\ (call.bufNull \/ call.bufLen = 0)) =>
        /\ Written(mem) = {}
        /\ ret = Required

\* The getters that answer a failure with 0: the size_t ones and the
\* WebView and Grid getters.
ZeroOnFailure ==
    {"wxd_CheckListBox_GetStringSelection", "wxd_CheckListBox_GetString",
     "wxd_StaticText_GetLabel", "wxd_WebView_GetCurrentURL",
     "wxd_Grid_GetCellValue", "wxd_IPCConnection_GetTopic"}

\* C4 as stated: a string operation that fails returns -1, never a
\* non-negative length.
C4_FailureReturnsMinusOne == Failed => ret = 0 - 1

\* C4, amended: a string operation that fails writes nothing and returns
\* its getter's failure value: -1 for the menu, config, tree, array-string
\* and RunScript getters, 0 for the getters of ZeroOnFailure.
C4_FailureValuePerGetter ==
    Failed =>
        /\ mem = FreshMem
        /\ ret = IF call.fn \in ZeroOnFailure THEN 0 ELSE 0 - 1

\* A check-list-box item past the end was asked for, and 0 came back.
C4_ZeroForBadIndex ==
    /\ Failed
    /\ call.fn = "wxd_CheckListBox_GetString"
    /\ call.handleOk
    /\ call.index >= call.count
    /\ ret = 0

\* C11: wxd_IPCConnection_GetTopic on a live connection established on
\* topic T returns the length of T and, given a buffer, leaves T in it
\* under the getter convention: min(L, buffer_len - 1) bytes and a NUL.
C11_GetTopicCopiesTopic ==
    (call.fn = "wxd_IPCConnection_GetTopic" /\ Succeeded) =>
        /\ ret = Required
        /\ (~call.bufNull /\ call.bufLen >= 1) =>
               /\ Written(mem) = 0..Copied
               /\ \A i \in 0..(Copied - 1) : mem[i] = ToUTF8(call.text)[i + 1]
               /\ mem[Copied] = 0

\* C16: wxd_ArrayString_GetString returns a negative value and writes
\* nothing when the array handle is null or the index lies outside
\* [0, count); for an index inside it returns the length, never negative,
\* of the string stored at that index.
C16_ArrayStringIndexChecked ==
    (call.fn = "wxd_ArrayString_GetString" /\ Called) =>
        IF ~call.handleOk \/ call.index < 0 \/ call.index >= call.count
        THEN ret < 0 /\ mem = FreshMem
        ELSE ret >= 0 /\ ret = Required

\* A negative index into a non-empty array was refused.
C16_NegativeIndexRefused ==
    /\ call.fn = "wxd_ArrayString_GetString"
    /\ Called
    /\ call.handleOk
    /\ call.index < 0
    /\ call.count > 0
    /\ ret < 0

(***************************************************************************)
(* Properties of the IPC registries (SpecIPC).                             *)
(***************************************************************************)

\* C5: after any sequence of server/client Create, Destroy and CleanupAll
\* calls, g_liveServers holds exactly the servers created and not yet
\* deleted, g_liveClients exactly the clients created and not yet deleted.
C5_RegistriesHoldLiveObjects ==
    /\ g_liveServers = LiveAt("server")
    /\ g_liveClients = LiveAt("client")

\* A server was just destroyed while a client stays live.
C5_DestroyedBesideLive ==
    /\ lastOp.op = "ServerDestroy"
    /\ lastOp.deletedIds # {}
    /\ g_liveClients # {}

C8_NullUnlessConnected ==
    lastOp.op = "MakeConnection" =>
        /\ (lastOp.handle = NULL \/ ~lastOp.argsOk \/ ~lastOp.made)
                => lastOp.result = NULL
        /\ lastOp.result # NULL
                => /\ lastOp.handle # NULL
                   /\ lastOp.argsOk
                   /\ lastOp.made
                   /\ conns[lastOp.result].state = "live"

\* A connection was made and its handle returned.
C8_ConnectionReturned ==
    /\ lastOp.op = "MakeConnection"
    /\ lastOp.result # NULL
    /\ conns[lastOp.result].state = "live"

\* C10: a terminated connection whose on_disconnect callback answered
\* true, or that has no on_disconnect callback, has been deleted; one whose
\* callback answered false has not.
C10_DisconnectDeletes ==
    \A c \in Ids :
        conns[c].terminated =>
            IF conns[c].discResult
            THEN conns[c].state = "deleted"
            ELSE conns[c].state = "live"

\* C19: the user data handed to wxd_IPCClient_MakeConnection together
\* with free_user_data is freed exactly once: by the failure path when the
\* call returns NULL, else by the destructor of the returned connection,
\* which holds it unfreed while it lives; no user data is freed twice.
C19_UserDataFreedOnce ==
    /\ \A u \in Ids : freed[u] <= 1
    /\ \A c \in LiveConns :
           (conns[c].userData # NULL /\ conns[c].freeFn) =>
               freed[conns[c].userData] = 0
    /\ (lastOp.op = "MakeConnection" /\ lastOp.userData # NULL) =>
           IF lastOp.result = NULL
           THEN freed[lastOp.userData] = 1
           ELSE conns[lastOp.result].userData = lastOp.userData

\* C20: in wxd_IPCServer_Destroy and in wxd_IPC_CleanupAll alike, a server
\* is out of g_liveServers by the time its destructor invokes
\* free_user_data, so a wxd_IPCServer_Destroy made from inside the callback
\* on the same handle deletes nothing and no server is deleted twice.
C20_ReentrantDestroyDeletesNothing ==
    lastOp.op \in {"ServerDestroy", "CleanupAll"} =>
        /\ lastOp.tracked = {}
        /\ \A i \in Ids : deletes[i] <= 1

(***************************************************************************)
(* Properties of the bitmaps (SpecBmp).                                    *)
(***************************************************************************)

\* C12: when the wxBitmapToggleButton constructor throws, whatever the
\* type of the exception, wxd_BitmapToggleButton_Create lets no exception
\* out: it logs one error message and returns a null pointer.
C12_ExceptionBecomesNull ==
    (lastBmp.op = "Button_Create" /\ lastBmp.thrown # "nothing") =>
        /\ ~lastBmp.escaped
        /\ lastBmp.logged = 1
        /\ ~lastBmp.made
        /\ btn = "none"

\* The constructor threw something that is no std::exception.
C12_UnknownExceptionCaught ==
    /\ lastBmp.op = "Button_Create"
    /\ lastBmp.thrown = "other"
    /\ lastBmp.logged = 1
    /\ ~lastBmp.made

\* C14: a bitmap getter returns null for a null handle or a bitmap that is
\* not valid, and otherwise a wxBitmap newly allocated on the heap, owned
\* by the caller, with the widget's content, at an address that neither
\* the widget's own bitmap nor a clone still alive has; no Destroy of a
\* bitmap the caller owns destroys a widget's bitmap or another clone.
C14_GetterReturnsFreshClone ==
    /\ lastBmp.op = "GetBitmap" =>
          IF ~lastBmp.self \/ ~IsOk(bmps[SlotAddr(lastBmp.slot)])
          THEN lastBmp.result = NULL
          ELSE /\ lastBmp.result \in BmpHeap
               /\ lastBmp.fresh
               /\ lastBmp.result \in owned
               /\ bmps[lastBmp.result] = bmps[SlotAddr(lastBmp.slot)]
    /\ \A i \in 1..Len(Slots) : bmps[SlotAddr(Slots[i])].state # "deleted"
    /\ \A h \in owned : h \in BmpHeap /\ bmps[h].state = "live"

\* A getter of the button returned a clone while the caller held another
\* bitmap.
C14_SecondCloneReturned ==
    /\ lastBmp.op = "GetBitmap"
    /\ lastBmp.slot \in ButtonSlots
    /\ lastBmp.result # NULL
    /\ Cardinality(owned) >= 2

(***************************************************************************)
(* Properties of the menus (SpecMenu).                                     *)
(***************************************************************************)

\* C13: a menu appended to the menubar, or passed in to Replace, is owned
\* and deleted by the menubar, a menu returned by Replace is the caller's
\* again, and while wxd_Menu_Destroy is applied only to menus that no
\* menubar owns, every menu is deleted at most once.
C13_MenuDeletedAtMostOnce ==
    /\ \A m \in MenuIds : menus[m].deletes <= 1
    /\ \A m \in OwnedByBar : menus[m].state = "live"
    /\ (lastMenu.op = "MenuBar_Replace" /\ lastMenu.result # NULL) =>
           lastMenu.result \notin OwnedByBar

(***************************************************************************)
(* Properties of the enum translations (SpecEnum).                         *)
(***************************************************************************)

TreeOps == {"TreeCtrl_SetItemImage", "TreeCtrl_GetItemImage"}
IconName == [w \in TreeItemIcons |->
    CASE w = WXD_TreeItemIcon_Normal -> "wxTreeItemIcon_Normal"
      [] w = WXD_TreeItemIcon_Selected -> "wxTreeItemIcon_Selected"
      [] w = WXD_TreeItemIcon_Expanded -> "wxTreeItemIcon_Expanded"
      [] OTHER -> "wxTreeItemIcon_SelectedExpanded"]
TypeName == [t \in EntryType |->
    CASE t = "Type_String" -> "WXD_CONFIG_TYPE_STRING"
      [] t = "Type_Boolean" -> "WXD_CONFIG_TYPE_BOOLEAN"
      [] t = "Type_Integer" -> "WXD_CONFIG_TYPE_INTEGER"
      [] t = "Type_Float" -> "WXD_CONFIG_TYPE_FLOAT"
      [] OTHER -> "WXD_CONFIG_TYPE_UNKNOWN"]

C17_SelectionCopiedUpToCapacity ==
    (lastSel.done /\ lastSel.self) =>
        /\ lastSel.result = Len(lastSel.selection)
        /\ \A i \in 1..SelMemSize :
               IF /\ lastSel.buffer
                  /\ lastSel.len > 0
                  /\ i <= lastSel.len
                  /\ i <= Len(lastSel.selection)
               THEN selOut[i] = lastSel.selection[i]
               ELSE selOut[i] = NotWritten

C17_MoreSelectedThanCapacity ==
    /\ lastSel.op = "Grid_GetSelectedBlocks"
    /\ lastSel.done /\ lastSel.self /\ lastSel.buffer
    /\ lastSel.len = 2
    /\ lastSel.result = 3
    /\ selOut[1] = lastSel.selection[1] /\ selOut[2] = lastSel.selection[2]
    /\ selOut[3] = NotWritten

(***************************************************************************)
(* Properties of the process-wide state (SpecCfg).                         *)
(***************************************************************************)

\* C18 as stated: no exported function outside the IPC Create, Destroy and
\* CleanupAll family changes any process-wide state, so no step of the
\* config functions changes the process-wide current config.
C18_NoProcessWideChange == [][cfgCurrent' = cfgCurrent]_vars

\* C18, amended: the wrapper's own globals, g_liveServers and
\* g_liveClients, are left alone by the config functions, which change
\* wxWidgets' process-wide current config instead: it is null or a live
\* config, wxd_Config_Set answers the one it replaced and installs its
\* argument, and wxd_Config_Get answers the one installed.
C18_CurrentConfigIsProcessWide ==
    /\ g_liveServers = {} /\ g_liveClients = {}
    /\ cfgCurrent \in cfgLive \cup {NULL}
    /\ lastCfg.op = "Config_Get" => lastCfg.result = cfgCurrent
    /\ lastCfg.op = "Config_Set" => lastCfg.arg = cfgCurrent

C18_GetAnswersConfigSetEarlier ==
    /\ lastCfg.op = "Config_Get"
    /\ lastCfg.result = 2
    /\ cfgLive = {1, 2}

(***************************************************************************)
(* Properties of the trampolines (SpecTramp).                              *)
(***************************************************************************)

\* The invocations of callback cb during the last virtual call.
Invocations(cb) ==
    {i \in 1..Len(vcall.invoked) : vcall.invoked[i].cb = cb}

====
